---- MODULE Spec2Model ----
(***************************************************************************)
(* Mission orchestrator of the debris-capture stage: AIBrain               *)
(* (ai_brain.py) and its subsystems PowerSystem, PropulsionSystem and      *)
(* GrabbingSystem (subsystems/*.py).                                       *)
(*                                                                         *)
(* Numbers.  The program computes in floating point; the model keeps every *)
(* quantity as an integer count of a fixed unit:                           *)
(*   length        1 mm            (positions, distance thresholds)        *)
(*   time          0.1 s           (dt, deploy_timer, retract_timer)       *)
(*   acceleration  1 cm/s^2        (controller outputs, returned u)        *)
(*   power         5 W             (= 0.5 kW per m/s^2 times 1 cm/s^2)     *)
(*   energy        0.5 J           (= 5 W times 0.1 s); soc is kept as the *)
(*                                 energy left, soc = 1.0 being SocFull    *)
(*   force         1 N components, 1 mN magnitudes                         *)
(*   fuel          1 mg                                                    *)
(*   mass          1 kg                                                    *)
(* Squares of lengths and forces exceed 32 bits and are kept as two-limb   *)
(* numbers <<hi, lo>> = hi * 10^6 + lo, so every distance comparison is    *)
(* the exact comparison of the squared Euclidean norms.                    *)
(***************************************************************************)
EXTENDS Integers, Sequences, FiniteSets, TLC

VARIABLES
    phase,            \* AIBrain.phase
    target_debris,    \* AIBrain.target_debris: index into debris_catalog, 0 = None
    debris_catalog,   \* AIBrain.debris_catalog
    state,            \* AIBrain.state (position part; the velocity only feeds the controllers)
    soc,              \* PowerSystem.soc
    fuel_kg,          \* PropulsionSystem.fuel_kg
    grabbing,         \* the GrabbingSystem fields
    out,              \* what the last compute_control returned: u and telemetry
    ret,              \* what the last direct subsystem call was and returned
    steps             \* number of operations performed so far

vars == <<phase, target_debris, debris_catalog, state, soc, fuel_kg, grabbing, out, ret, steps>>

-----------------------------------------------------------------------------
(* Bounds of the model *)

MaxSteps == 5

-----------------------------------------------------------------------------
(* MissionPhase, ai_brain.py:17-25 *)

PAYLOAD_DEPLOYED == "payload_deployed"
SEEKING_DEBRIS == "seeking_debris"
COARSE_APPROACH == "coarse_approach"
FINE_APPROACH == "fine_approach"
CAPTURE == "capture"
RETRACTING == "retracting"
REENTRY == "reentry"
COMPLETE == "complete"

MissionPhase ==
    {PAYLOAD_DEPLOYED, SEEKING_DEBRIS, COARSE_APPROACH, FINE_APPROACH,
     CAPTURE, RETRACTING, REENTRY, COMPLETE}

-----------------------------------------------------------------------------
(* config.py, in the units above *)

LQR_COARSE_THRESHOLD == 500000
MPC_FINE_THRESHOLD == 5000
SLIDING_CAPTURE_THRESHOLD == 10
CAPTURE_TOLERANCE_MM == 1
MAX_DISCHARGE_RATE_KW == 2000
MAIN_RCS_THRUST_N == 450
VERNIER_RCS_THRUST_N == 50
RCS_ISP == 300
NET_DEPLOYMENT_TIME_S == 30
NET_RETRACTION_TIME_S == 50
MAX_DEBRIS_MASS_KG == 500

\* BATTERY_CAPACITY_KWH = 50 kWh = 1.8e8 J, in 0.5 J: the energy held at soc = 1.0
SocFull == 360000000
\* the 5.0 kW that compute_control asks can_support for
ControlPowerKw == 1000
\* PropulsionSystem.mass_kg, AIBrain passes dry_mass_kg=4000: newtons per cm/s^2
ForcePerAccel == 40
\* PropulsionSystem.fuel_kg = 500 kg at construction
FuelFull == 500000000
\* target_debris.get("mass_kg", 100)
DefaultMassKg == 100
\* a catalog record without the mass_kg key
NoMass == -1

-----------------------------------------------------------------------------
(* Arithmetic helpers *)

Abs(x) == IF x < 0 THEN -x ELSE x
Min(a, b) == IF a < b THEN a ELSE b
Max(a, b) == IF a > b THEN a ELSE b

Limb == 1000 * 1000

\* x * x as a two-limb number, for |x| < 4 * 10^7
SqLimb(x) ==
    LET ax == Abs(x)
        a == ax \div 1000
        b == ax % 1000
        c == 2 * a * b
        l == (c % 1000) * 1000 + b * b
    IN  <<a * a + c \div 1000 + l \div Limb, l % Limb>>

AddLimb(p, q) ==
    LET l == p[2] + q[2]
    IN  <<p[1] + q[1] + l \div Limb, l % Limb>>

LessLimb(p, q) == p[1] < q[1] \/ (p[1] = q[1] /\ p[2] < q[2])

\* squared Euclidean norm of a 3-vector
NormSq(v) == AddLimb(AddLimb(SqLimb(v[1]), SqLimb(v[2])), SqLimb(v[3]))

Sub3(p, q) == <<p[1] - q[1], p[2] - q[2], p[3] - q[3]>>

\* np.linalg.norm(p - q) < t
DistLess(p, q, t) == LessLimb(NormSq(Sub3(p, q)), SqLimb(t))

RECURSIVE SqrtLimbIter(_, _, _)
SqrtLimbIter(n, lo, hi) ==
    IF lo >= hi THEN lo
    ELSE LET mid == (lo + hi + 1) \div 2
         IN  IF LessLimb(n, SqLimb(mid))
             THEN SqrtLimbIter(n, lo, mid - 1)
             ELSE SqrtLimbIter(n, mid, hi)

\* np.linalg.norm(v), rounded down to the unit of v; the norm lies between the
\* largest component and twice it
Norm(v) ==
    LET m == Max(Abs(v[1]), Max(Abs(v[2]), Abs(v[3])))
    IN  SqrtLimbIter(NormSq(v), m, 2 * m)

\* a / b rounded to the nearest integer, b > 0
RoundDiv(a, b) == IF a >= 0 THEN (2 * a + b) \div (2 * b) ELSE -((2 * (-a) + b) \div (2 * b))

Zero3 == <<0, 0, 0>>

-----------------------------------------------------------------------------
(* PowerSystem, subsystems/power_system.py *)

\* can_support without the 1 % reserve
can_support_no_reserve(s, kw) == s > 0 /\ kw <= MAX_DISCHARGE_RATE_KW

\* soc > 0.01 and kw <= max_discharge_kw
can_support(s, kw) == s > SocFull \div 100 /\ kw <= MAX_DISCHARGE_RATE_KW

\* request_power without the clamp to the energy left and without the floor at 0
request_power_no_clamp(s, kw, dt) ==
    LET available == Min(kw, MAX_DISCHARGE_RATE_KW)
    IN  [soc |-> s - available * dt, ret |-> (available * 95) \div 100]

\* the soc left and the power delivered (times efficiency 0.95)
request_power(s, kw, dt) ==
    LET available == Min(kw, MAX_DISCHARGE_RATE_KW)
        energy_kwh == available * dt
        clamp == energy_kwh > s
        available2 == IF clamp THEN s \div dt ELSE available
        energy2 == IF clamp THEN s ELSE energy_kwh
    IN  [soc |-> Max(0, s - energy2), ret |-> (available2 * 95) \div 100]

-----------------------------------------------------------------------------
(* PropulsionSystem, subsystems/propulsion.py *)

\* isp * 9.81
IspG == (RCS_ISP * 981) \div 100

\* f_max = sqrt(3) * main_thrust, in mN
ForceMax == Norm(<<1000 * MAIN_RCS_THRUST_N, 1000 * MAIN_RCS_THRUST_N, 1000 * MAIN_RCS_THRUST_N>>)

\* thrust_from_acceleration that subtracts fuel_used without the min against fuel_kg
thrust_from_acceleration_no_min(fuel, accel) ==
    LET f == <<ForcePerAccel * accel[1], ForcePerAccel * accel[2], ForcePerAccel * accel[3]>>
        mag2 == NormSq(f)
        capped == LessLimb(NormSq(<<MAIN_RCS_THRUST_N, MAIN_RCS_THRUST_N, MAIN_RCS_THRUST_N>>), mag2)
        vernier == LessLimb(mag2, SqLimb(VERNIER_RCS_THRUST_N))
        force == IF capped THEN ForceMax
                 ELSE IF vernier THEN (IF f = Zero3 THEN 0 ELSE 1000 * VERNIER_RCS_THRUST_N)
                 ELSE Norm(<<1000 * f[1], 1000 * f[2], 1000 * f[3]>>)
        fuel_used == (force * 100) \div IspG
    IN  [fuel_kg |-> fuel - fuel_used, force |-> force, fuel_used |-> fuel_used]

\* the fuel left, the magnitude of the force returned (mN) and the fuel used (mg)
thrust_from_acceleration(fuel, accel) ==
    LET f == <<ForcePerAccel * accel[1], ForcePerAccel * accel[2], ForcePerAccel * accel[3]>>
        mag2 == NormSq(f)
        capped == LessLimb(NormSq(<<MAIN_RCS_THRUST_N, MAIN_RCS_THRUST_N, MAIN_RCS_THRUST_N>>), mag2)
        vernier == LessLimb(mag2, SqLimb(VERNIER_RCS_THRUST_N))
        \* f * (vernier_thrust / (mag + 1e-8)): the zero force stays zero, any other
        \* falls short of vernier_thrust by less than 1e-5 mN
        force == IF capped THEN ForceMax
                 ELSE IF vernier THEN (IF f = Zero3 THEN 0 ELSE 1000 * VERNIER_RCS_THRUST_N)
                 ELSE Norm(<<1000 * f[1], 1000 * f[2], 1000 * f[3]>>)
        \* mdot * dt_flow with dt_flow = 0.1 s, whatever the tick's dt
        fuel_used == (force * 100) \div IspG
    IN  [fuel_kg |-> fuel - Min(fuel_used, fuel), force |-> force, fuel_used |-> fuel_used]

-----------------------------------------------------------------------------
(* GrabbingSystem, subsystems/grabbing_system.py *)

GrabbingInit ==
    [net_deployed |-> FALSE, net_deploying |-> FALSE, capture_confirmed |-> FALSE,
     retracting |-> FALSE, deploy_timer |-> 0, retract_timer |-> 0,
     captured_mass_kg |-> 0, deployment_thruster_active |-> FALSE]

\* deploy_net with deploy_timer > NET_DEPLOYMENT_TIME_S
deploy_net_strict(g, dt) ==
    IF g.net_deployed THEN [g |-> g, ret |-> TRUE]
    ELSE LET t == g.deploy_timer + dt
             g2 == IF t > NET_DEPLOYMENT_TIME_S
                   THEN [g EXCEPT !.deploy_timer = t, !.net_deployed = TRUE,
                                  !.net_deploying = FALSE,
                                  !.deployment_thruster_active = FALSE]
                   ELSE [g EXCEPT !.deploy_timer = t, !.net_deploying = TRUE,
                                  !.deployment_thruster_active = TRUE]
         IN  [g |-> g2, ret |-> g2.net_deployed]

deploy_net(g, dt) ==
    IF g.net_deployed THEN [g |-> g, ret |-> TRUE]
    ELSE LET t == g.deploy_timer + dt
             g2 == IF t >= NET_DEPLOYMENT_TIME_S
                   THEN [g EXCEPT !.deploy_timer = t, !.net_deployed = TRUE,
                                  !.net_deploying = FALSE,
                                  !.deployment_thruster_active = FALSE]
                   ELSE [g EXCEPT !.deploy_timer = t, !.net_deploying = TRUE,
                                  !.deployment_thruster_active = TRUE]
         IN  [g |-> g2, ret |-> g2.net_deployed]

\* confirm_capture that forgets the mass limit
confirm_capture_any_mass(g, mass_kg) ==
    IF g.net_deployed
    THEN [g |-> [g EXCEPT !.capture_confirmed = TRUE, !.captured_mass_kg = mass_kg],
          ret |-> TRUE]
    ELSE [g |-> g, ret |-> FALSE]

\* confirm_capture with mass_kg < MAX_DEBRIS_MASS_KG
confirm_capture_strict(g, mass_kg) ==
    IF mass_kg < MAX_DEBRIS_MASS_KG /\ g.net_deployed
    THEN [g |-> [g EXCEPT !.capture_confirmed = TRUE, !.captured_mass_kg = mass_kg],
          ret |-> TRUE]
    ELSE [g |-> g, ret |-> FALSE]

confirm_capture(g, mass_kg) ==
    IF mass_kg <= MAX_DEBRIS_MASS_KG /\ g.net_deployed
    THEN [g |-> [g EXCEPT !.capture_confirmed = TRUE, !.captured_mass_kg = mass_kg],
          ret |-> TRUE]
    ELSE [g |-> g, ret |-> FALSE]

retract_net(g, dt) ==
    IF ~g.capture_confirmed THEN [g |-> g, ret |-> FALSE]
    ELSE LET t == g.retract_timer + dt
         IN  [g |-> [g EXCEPT !.retracting = TRUE, !.retract_timer = t],
              ret |-> t >= NET_RETRACTION_TIME_S]

-----------------------------------------------------------------------------
(* AIBrain, ai_brain.py *)

\* the loop of identify_nearest_debris: best is the index kept so far, 0 while
\* best_dist is still np.inf
RECURSIVE NearestFrom(_, _, _, _)
NearestFrom(pos, catalog, i, best) ==
    IF i > Len(catalog) THEN best
    ELSE NearestFrom(pos, catalog, i + 1,
             IF best = 0 \/ LessLimb(NormSq(Sub3(catalog[i].pos, pos)),
                                     NormSq(Sub3(catalog[best].pos, pos)))
             THEN i ELSE best)

\* identify_nearest_debris with dist <= best_dist: the last of equally near records
RECURSIVE NearestFromLast(_, _, _, _)
NearestFromLast(pos, catalog, i, best) ==
    IF i > Len(catalog) THEN best
    ELSE NearestFromLast(pos, catalog, i + 1,
             IF best = 0 \/ ~LessLimb(NormSq(Sub3(catalog[best].pos, pos)),
                                      NormSq(Sub3(catalog[i].pos, pos)))
             THEN i ELSE best)

identify_nearest_debris_last(st, catalog) ==
    IF catalog = <<>> THEN 0 ELSE NearestFromLast(st, catalog, 1, 0)

identify_nearest_debris(st, catalog) ==
    IF catalog = <<>> THEN 0 ELSE NearestFrom(st, catalog, 1, 0)

\* decide_phase that falls back to FINE_APPROACH when CAPTURE is out of range
decide_phase_fall_back(ph, st, target, g) ==
    IF target = <<>> THEN SEEKING_DEBRIS
    ELSE IF ph = COARSE_APPROACH /\ DistLess(st, target, LQR_COARSE_THRESHOLD) THEN FINE_APPROACH
    ELSE IF ph = FINE_APPROACH /\ DistLess(st, target, MPC_FINE_THRESHOLD) THEN CAPTURE
    ELSE IF ph = CAPTURE /\ DistLess(st, target, SLIDING_CAPTURE_THRESHOLD) THEN RETRACTING
    ELSE IF ph = CAPTURE /\ ~DistLess(st, target, MPC_FINE_THRESHOLD) THEN FINE_APPROACH
    ELSE IF g.retract_timer >= NET_RETRACTION_TIME_S /\ g.capture_confirmed THEN REENTRY
    ELSE IF ph = REENTRY THEN COMPLETE
    ELSE ph

\* decide_phase whose override only fires in RETRACTING
decide_phase_retracting_only(ph, st, target, g) ==
    IF target = <<>> THEN SEEKING_DEBRIS
    ELSE IF ph = COARSE_APPROACH /\ DistLess(st, target, LQR_COARSE_THRESHOLD) THEN FINE_APPROACH
    ELSE IF ph = FINE_APPROACH /\ DistLess(st, target, MPC_FINE_THRESHOLD) THEN CAPTURE
    ELSE IF ph = CAPTURE /\ DistLess(st, target, SLIDING_CAPTURE_THRESHOLD) THEN RETRACTING
    ELSE IF ph = RETRACTING /\ g.retract_timer >= NET_RETRACTION_TIME_S /\ g.capture_confirmed
         THEN REENTRY
    ELSE IF ph = REENTRY THEN COMPLETE
    ELSE ph

\* decide_phase that goes straight to CAPTURE from COARSE_APPROACH within the fine range
decide_phase_skip(ph, st, target, g) ==
    IF target = <<>> THEN SEEKING_DEBRIS
    ELSE IF ph = COARSE_APPROACH /\ DistLess(st, target, MPC_FINE_THRESHOLD) THEN CAPTURE
    ELSE IF ph = COARSE_APPROACH /\ DistLess(st, target, LQR_COARSE_THRESHOLD) THEN FINE_APPROACH
    ELSE IF ph = FINE_APPROACH /\ DistLess(st, target, MPC_FINE_THRESHOLD) THEN CAPTURE
    ELSE IF ph = CAPTURE /\ DistLess(st, target, SLIDING_CAPTURE_THRESHOLD) THEN RETRACTING
    ELSE IF g.retract_timer >= NET_RETRACTION_TIME_S /\ g.capture_confirmed THEN REENTRY
    ELSE IF ph = REENTRY THEN COMPLETE
    ELSE ph

\* decide_phase that holds CAPTURE until the net is deployed
decide_phase_wait_for_net(ph, st, target, g) ==
    IF target = <<>> THEN SEEKING_DEBRIS
    ELSE IF ph = COARSE_APPROACH /\ DistLess(st, target, LQR_COARSE_THRESHOLD) THEN FINE_APPROACH
    ELSE IF ph = FINE_APPROACH /\ DistLess(st, target, MPC_FINE_THRESHOLD) THEN CAPTURE
    ELSE IF ph = CAPTURE /\ g.net_deployed /\ DistLess(st, target, SLIDING_CAPTURE_THRESHOLD)
         THEN RETRACTING
    ELSE IF g.retract_timer >= NET_RETRACTION_TIME_S /\ g.capture_confirmed THEN REENTRY
    ELSE IF ph = REENTRY THEN COMPLETE
    ELSE ph

\* decide_phase that starts the approach as soon as a target is held
decide_phase_start(ph, st, target, g) ==
    IF target = <<>> THEN SEEKING_DEBRIS
    ELSE IF ph = PAYLOAD_DEPLOYED THEN COARSE_APPROACH
    ELSE IF ph = COARSE_APPROACH /\ DistLess(st, target, LQR_COARSE_THRESHOLD) THEN FINE_APPROACH
    ELSE IF ph = FINE_APPROACH /\ DistLess(st, target, MPC_FINE_THRESHOLD) THEN CAPTURE
    ELSE IF ph = CAPTURE /\ DistLess(st, target, SLIDING_CAPTURE_THRESHOLD) THEN RETRACTING
    ELSE IF g.retract_timer >= NET_RETRACTION_TIME_S /\ g.capture_confirmed THEN REENTRY
    ELSE IF ph = REENTRY THEN COMPLETE
    ELSE ph

\* target is the target's position, or <<>> for None
decide_phase(ph, st, target, g) ==
    IF target = <<>> THEN SEEKING_DEBRIS
    ELSE IF ph = COARSE_APPROACH /\ DistLess(st, target, LQR_COARSE_THRESHOLD) THEN FINE_APPROACH
    ELSE IF ph = FINE_APPROACH /\ DistLess(st, target, MPC_FINE_THRESHOLD) THEN CAPTURE
    ELSE IF ph = CAPTURE /\ DistLess(st, target, SLIDING_CAPTURE_THRESHOLD) THEN RETRACTING
    ELSE IF g.retract_timer >= NET_RETRACTION_TIME_S /\ g.capture_confirmed THEN REENTRY
    ELSE IF ph = REENTRY THEN COMPLETE
    ELSE ph

\* the deorbit gain 0.5 m/s^2
DeorbitGain == 50

\* -0.5 * state[:3] / (norm(state[:3]) + 1e-6), to the nearest cm/s^2; the 1e-6 m
\* is below the length unit and only keeps the division defined at the origin
ReentryAccel(st) ==
    LET n == Norm(st)
    IN  IF n = 0 THEN Zero3
        ELSE <<RoundDiv(-DeorbitGain * st[1], n), RoundDiv(-DeorbitGain * st[2], n),
               RoundDiv(-DeorbitGain * st[3], n)>>

\* target_debris.get("mass_kg", 100)
MassOf(d) == IF d.mass_kg = NoMass THEN DefaultMassKg ELSE d.mass_kg

\* Dispatch that confirms and retracts as soon as the net is out
Dispatch_confirm_in_capture(ph, st, target, dt, u_ctrl, g, mass_kg) ==
    IF ph = COARSE_APPROACH /\ target # <<>>
    THEN [u |-> u_ctrl, control_mode |-> "LQR", g |-> g]
    ELSE IF ph = FINE_APPROACH /\ target # <<>>
    THEN [u |-> u_ctrl, control_mode |-> "MPC", g |-> g]
    ELSE IF ph = CAPTURE /\ target # <<>>
    THEN [u |-> u_ctrl, control_mode |-> "SMC+Adaptive",
          g |-> IF DistLess(st, target, CAPTURE_TOLERANCE_MM)
                THEN retract_net(confirm_capture(deploy_net(g, dt).g, mass_kg).g, dt).g
                ELSE g]
    ELSE IF ph = RETRACTING
    THEN [u |-> Zero3, control_mode |-> "retract",
          g |-> retract_net(confirm_capture(g, mass_kg).g, dt).g]
    ELSE IF ph = REENTRY
    THEN [u |-> ReentryAccel(st), control_mode |-> "reentry", g |-> g]
    ELSE [u |-> Zero3, control_mode |-> "null", g |-> g]

\* Dispatch that keeps thrusting while it retracts
Dispatch_thrust_in_retract(ph, st, target, dt, u_ctrl, g, mass_kg) ==
    IF ph = COARSE_APPROACH /\ target # <<>>
    THEN [u |-> u_ctrl, control_mode |-> "LQR", g |-> g]
    ELSE IF ph = FINE_APPROACH /\ target # <<>>
    THEN [u |-> u_ctrl, control_mode |-> "MPC", g |-> g]
    ELSE IF ph = CAPTURE /\ target # <<>>
    THEN [u |-> u_ctrl, control_mode |-> "SMC+Adaptive",
          g |-> IF DistLess(st, target, CAPTURE_TOLERANCE_MM)
                THEN deploy_net(g, dt).g ELSE g]
    ELSE IF ph = RETRACTING
    THEN [u |-> u_ctrl, control_mode |-> "retract",
          g |-> retract_net(confirm_capture(g, mass_kg).g, dt).g]
    ELSE IF ph = REENTRY
    THEN [u |-> ReentryAccel(st), control_mode |-> "reentry", g |-> g]
    ELSE [u |-> Zero3, control_mode |-> "null", g |-> g]

\* the control computation by phase: u_ctrl is what the controller of the phase
\* returns for (state, target)
Dispatch(ph, st, target, dt, u_ctrl, g, mass_kg) ==
    IF ph = COARSE_APPROACH /\ target # <<>>
    THEN [u |-> u_ctrl, control_mode |-> "LQR", g |-> g]
    ELSE IF ph = FINE_APPROACH /\ target # <<>>
    THEN [u |-> u_ctrl, control_mode |-> "MPC", g |-> g]
    ELSE IF ph = CAPTURE /\ target # <<>>
    THEN [u |-> u_ctrl, control_mode |-> "SMC+Adaptive",
          g |-> IF DistLess(st, target, CAPTURE_TOLERANCE_MM)
                THEN deploy_net(g, dt).g ELSE g]
    ELSE IF ph = RETRACTING
    THEN [u |-> Zero3, control_mode |-> "retract",
          g |-> retract_net(confirm_capture(g, mass_kg).g, dt).g]
    ELSE IF ph = REENTRY
    THEN [u |-> ReentryAccel(st), control_mode |-> "reentry", g |-> g]
    ELSE [u |-> Zero3, control_mode |-> "null", g |-> g]

\* compute_control that checks the power after the phase update
compute_control_late_check(ph, tgt, catalog, s, fuel, g, st, dt, u_ctrl) ==
    LET select == tgt = 0 /\ catalog # <<>>
        tgt2 == IF select THEN identify_nearest_debris(st, catalog) ELSE tgt
        ph2 == IF select /\ tgt2 # 0 THEN COARSE_APPROACH ELSE ph
        target == IF tgt2 # 0 THEN catalog[tgt2].pos ELSE <<>>
        ph3 == decide_phase(ph2, st, target, g)
    IN  IF ~can_support(s, ControlPowerKw)
        THEN [phase |-> ph3, target_debris |-> tgt2, soc |-> s, fuel_kg |-> fuel,
              grabbing |-> g,
              out |-> [u |-> Zero3, phase |-> ph, control_mode |-> "null",
                       error |-> "low_power"]]
        ELSE LET d == Dispatch(ph3, st, target, dt, u_ctrl, g,
                               IF tgt2 # 0 THEN MassOf(catalog[tgt2]) ELSE DefaultMassKg)
                 p == request_power(s, Norm(d.u), dt)
                 t == thrust_from_acceleration(fuel, d.u)
             IN  [phase |-> ph3, target_debris |-> tgt2, soc |-> p.soc,
                  fuel_kg |-> t.fuel_kg, grabbing |-> d.g,
                  out |-> [u |-> d.u, phase |-> ph, control_mode |-> d.control_mode,
                           error |-> "none"]]

\* compute_control whose telemetry is built after the phase update
compute_control_late_telemetry(ph, tgt, catalog, s, fuel, g, st, dt, u_ctrl) ==
    IF ~can_support(s, ControlPowerKw)
    THEN [phase |-> ph, target_debris |-> tgt, soc |-> s, fuel_kg |-> fuel, grabbing |-> g,
          out |-> [u |-> Zero3, phase |-> ph, control_mode |-> "null", error |-> "low_power"]]
    ELSE LET select == tgt = 0 /\ catalog # <<>>
             tgt2 == IF select THEN identify_nearest_debris(st, catalog) ELSE tgt
             ph2 == IF select /\ tgt2 # 0 THEN COARSE_APPROACH ELSE ph
             target == IF tgt2 # 0 THEN catalog[tgt2].pos ELSE <<>>
             ph3 == decide_phase(ph2, st, target, g)
             d == Dispatch(ph3, st, target, dt, u_ctrl, g,
                           IF tgt2 # 0 THEN MassOf(catalog[tgt2]) ELSE DefaultMassKg)
             p == request_power(s, Norm(d.u), dt)
             t == thrust_from_acceleration(fuel, d.u)
         IN  [phase |-> ph3, target_debris |-> tgt2, soc |-> p.soc, fuel_kg |-> t.fuel_kg,
              grabbing |-> d.g,
              out |-> [u |-> d.u, phase |-> ph3, control_mode |-> d.control_mode,
                       error |-> "none"]]

\* a target is identified on every tick
NeedsTarget_every_tick(tgt, catalog) == catalog # <<>>

\* self.target_debris is None and self.debris_catalog
NeedsTarget(tgt, catalog) == tgt = 0 /\ catalog # <<>>

\* the brain after compute_control(state, dt), and what the call returns
compute_control(ph, tgt, catalog, s, fuel, g, st, dt, u_ctrl) ==
    IF ~can_support(s, ControlPowerKw)
    THEN [phase |-> ph, target_debris |-> tgt, soc |-> s, fuel_kg |-> fuel, grabbing |-> g,
          out |-> [u |-> Zero3, phase |-> ph, control_mode |-> "null", error |-> "low_power"]]
    ELSE LET select == NeedsTarget(tgt, catalog)
             tgt2 == IF select THEN identify_nearest_debris(st, catalog) ELSE tgt
             ph2 == IF select /\ tgt2 # 0 THEN COARSE_APPROACH ELSE ph
             target == IF tgt2 # 0 THEN catalog[tgt2].pos ELSE <<>>
             ph3 == decide_phase(ph2, st, target, g)
             d == Dispatch(ph3, st, target, dt, u_ctrl, g,
                           IF tgt2 # 0 THEN MassOf(catalog[tgt2]) ELSE DefaultMassKg)
             p == request_power(s, Norm(d.u), dt)
             t == thrust_from_acceleration(fuel, d.u)
         IN  [phase |-> ph3, target_debris |-> tgt2, soc |-> p.soc, fuel_kg |-> t.fuel_kg,
              grabbing |-> d.g,
              out |-> [u |-> d.u, phase |-> ph, control_mode |-> d.control_mode,
                       error |-> "none"]]

-----------------------------------------------------------------------------
(* The inputs of a run *)

PosA == <<800000, 200000, 100000>>
PosB == <<300000, 50000, 20000>>
PosC == <<5000000, 500000, 300000>>
PosBMirror == <<-300000, 50000, 20000>>

\* the catalogs a mission is loaded with: none, the one of main.py, one whose
\* first two records are equally far from the origin and whose first is too
\* massive, and one whose record has no mass_kg
Catalogs ==
    { <<>>,
      <<[pos |-> PosA, mass_kg |-> 150], [pos |-> PosB, mass_kg |-> 80],
        [pos |-> PosC, mass_kg |-> 200]>>,
      <<[pos |-> PosB, mass_kg |-> 600], [pos |-> PosBMirror, mass_kg |-> 80]>>,
      <<[pos |-> PosB, mass_kg |-> NoMass]>> }

Shift(p, dx) == <<p[1] + dx, p[2], p[3]>>

\* the positions a tick is given: the origin and points at 0, 1 mm, 5 mm, 1 cm,
\* 5 m and 500 m from PosB
StatePositions ==
    {Zero3, PosB, Shift(PosB, 1), Shift(PosB, 5), Shift(PosB, 10), Shift(PosB, 5000),
     Shift(PosB, 500000)}

\* the dt a tick is given: 1 s, 5 s, and one that drains the battery
DtValues == {10, 50, 179000}

\* what the controller of the phase returns
ControllerOutputs == {Zero3, <<2000, 0, 0>>}

-----------------------------------------------------------------------------
(* The state machine *)

OutInit == [u |-> Zero3, phase |-> "none", control_mode |-> "null", error |-> "none"]
RetInit == [op |-> "none", arg |-> 0, dt |-> 0, val |-> 0]

Init ==
    /\ phase = PAYLOAD_DEPLOYED
    /\ target_debris = 0
    /\ debris_catalog \in Catalogs
    /\ state = Zero3
    /\ soc = SocFull
    /\ fuel_kg = FuelFull
    /\ grabbing = GrabbingInit
    /\ out = OutInit
    /\ ret = RetInit
    /\ steps = 0

\* AIBrain.compute_control(state, dt)
Tick(st, dt, u_ctrl) ==
    /\ steps < MaxSteps
    /\ \E r \in {compute_control(phase, target_debris, debris_catalog, soc, fuel_kg,
                                grabbing, st, dt, u_ctrl)} :
           /\ phase' = r.phase
           /\ target_debris' = r.target_debris
           /\ soc' = r.soc
           /\ fuel_kg' = r.fuel_kg
           /\ grabbing' = r.grabbing
           /\ out' = r.out
    /\ state' = st
    /\ ret' = [op |-> "compute_control", arg |-> 0, dt |-> 0, val |-> 0]
    /\ steps' = steps + 1
    /\ UNCHANGED debris_catalog

Ticks == \E st \in StatePositions, dt \in DtValues, u_ctrl \in ControllerOutputs : Tick(st, dt, u_ctrl)

Next == Ticks

\* a run driven by compute_control ticks alone
Spec == Init /\ [][Next]_vars

-----------------------------------------------------------------------------
(* A run in which the caller also uses the subsystems directly, as run_simulation
   does with ai.grabbing (main.py:59-60) *)

\* the inputs of the direct calls
CallDt == {10, 50}
CallMass == {80, 500, 501}
CallKw == {0, 1000, 3000}
CallPowerDt == {10, 200000}

\* GrabbingSystem.deploy_net(dt)
DeployNet(dt) ==
    /\ steps < MaxSteps
    /\ \E r \in {deploy_net(grabbing, dt)} :
           /\ grabbing' = r.g
           /\ ret' = [op |-> "deploy_net", arg |-> 0, dt |-> dt, val |-> r.ret]
    /\ steps' = steps + 1
    /\ UNCHANGED <<phase, target_debris, debris_catalog, state, soc, fuel_kg, out>>

\* GrabbingSystem.confirm_capture(mass_kg)
ConfirmCapture(mass_kg) ==
    /\ steps < MaxSteps
    /\ \E r \in {confirm_capture(grabbing, mass_kg)} :
           /\ grabbing' = r.g
           /\ ret' = [op |-> "confirm_capture", arg |-> mass_kg, dt |-> 0, val |-> r.ret]
    /\ steps' = steps + 1
    /\ UNCHANGED <<phase, target_debris, debris_catalog, state, soc, fuel_kg, out>>

\* GrabbingSystem.retract_net(dt)
RetractNet(dt) ==
    /\ steps < MaxSteps
    /\ \E r \in {retract_net(grabbing, dt)} :
           /\ grabbing' = r.g
           /\ ret' = [op |-> "retract_net", arg |-> 0, dt |-> dt, val |-> r.ret]
    /\ steps' = steps + 1
    /\ UNCHANGED <<phase, target_debris, debris_catalog, state, soc, fuel_kg, out>>

\* PowerSystem.request_power(kw, dt)
RequestPower(kw, dt) ==
    /\ steps < MaxSteps
    /\ \E r \in {request_power(soc, kw, dt)} :
           /\ soc' = r.soc
           /\ ret' = [op |-> "request_power", arg |-> kw, dt |-> dt, val |-> r.ret]
    /\ steps' = steps + 1
    /\ UNCHANGED <<phase, target_debris, debris_catalog, state, fuel_kg, grabbing, out>>

\* the ticks of such a run
OpsPositions == {Zero3, PosB, Shift(PosB, 5000)}
OpsDt == {30}

OpsTicks == \E st \in OpsPositions, dt \in OpsDt, u_ctrl \in ControllerOutputs : Tick(st, dt, u_ctrl)
DeployNets == \E dt \in CallDt : DeployNet(dt)
ConfirmCaptures == \E mass_kg \in CallMass : ConfirmCapture(mass_kg)
RetractNets == \E dt \in CallDt : RetractNet(dt)
RequestPowers == \E kw \in CallKw, dt \in CallPowerDt : RequestPower(kw, dt)

NextOps == OpsTicks \/ DeployNets \/ ConfirmCaptures \/ RetractNets \/ RequestPowers

SpecOps == Init /\ [][NextOps]_vars

-----------------------------------------------------------------------------
(* PropulsionSystem.thrust_from_acceleration on its own and under ticks, from any
   fuel level a mission can have burnt down to *)

\* the fuel left when the run starts: full, 30 g, 1 g and none
FuelLevels == {FuelFull, 30000, 1000, 0}
\* the accelerations asked for: none, below the vernier floor (40 N), between the
\* floor and the cap (520 N), above the cap
CallAccel == {Zero3, <<1, 0, 0>>, <<0, -12, 5>>, <<2000, 0, 0>>}

InitProp ==
    /\ phase = PAYLOAD_DEPLOYED
    /\ target_debris = 0
    /\ debris_catalog \in Catalogs
    /\ state = Zero3
    /\ soc = SocFull
    /\ fuel_kg \in FuelLevels
    /\ grabbing = GrabbingInit
    /\ out = OutInit
    /\ ret = RetInit
    /\ steps = 0

\* PropulsionSystem.thrust_from_acceleration(accel_mps2)
Thrust(accel) ==
    /\ steps < MaxSteps
    /\ \E r \in {thrust_from_acceleration(fuel_kg, accel)} :
           /\ fuel_kg' = r.fuel_kg
           /\ ret' = [op |-> "thrust_from_acceleration", arg |-> accel, dt |-> 0,
                      val |-> <<r.force, r.fuel_used>>]
    /\ steps' = steps + 1
    /\ UNCHANGED <<phase, target_debris, debris_catalog, state, soc, grabbing, out>>

PropPositions == {Zero3, PosB}
PropDt == {10, 50}

PropTicks == \E st \in PropPositions, dt \in PropDt, u_ctrl \in ControllerOutputs : Tick(st, dt, u_ctrl)
Thrusts == \E accel \in CallAccel : Thrust(accel)

NextProp == PropTicks \/ Thrusts

SpecProp == InitProp /\ [][NextProp]_vars

-----------------------------------------------------------------------------
(* The run of run_simulation: the caller loads a catalog and sets the target
   itself before the first tick, then moves the target between ticks *)

\* ai.debris_catalog = [...]; ai.target_debris = ai.identify_nearest_debris(state,
\* ai.debris_catalog), with the state at the origin
InitPreset ==
    /\ phase = PAYLOAD_DEPLOYED
    /\ debris_catalog \in Catalogs \ {<<>>}
    /\ target_debris = identify_nearest_debris(Zero3, debris_catalog)
    /\ state = Zero3
    /\ soc = SocFull
    /\ fuel_kg = FuelFull
    /\ grabbing = GrabbingInit
    /\ out = OutInit
    /\ ret = RetInit
    /\ steps = 0

\* how far the caller has moved the target from where the catalog had it, at most
MaxDrift == 2

\* the displacements the drift has built up between two ticks
DriftSteps == {-1, 1}

\* target_pos += target_vel * dt * 0.1; ai.target_debris["pos"] = target_pos.tolist():
\* the record is the one in the catalog, so the catalog's entry moves
Drift(dx) ==
    /\ target_debris # 0
    /\ Abs(debris_catalog[target_debris].pos[1] + dx - PosB[1]) <= MaxDrift
    /\ debris_catalog' =
           [debris_catalog EXCEPT ![target_debris].pos = Shift(@, dx)]
    /\ ret' = [op |-> "drift", arg |-> dx, dt |-> 0, val |-> 0]
    /\ UNCHANGED <<phase, target_debris, state, soc, fuel_kg, grabbing, out, steps>>

PresetTicks == \E st \in StatePositions, dt \in DtValues, u_ctrl \in ControllerOutputs : Tick(st, dt, u_ctrl)
Drifts == \E dx \in DriftSteps : Drift(dx)

NextPreset == PresetTicks \/ Drifts

SpecPreset == InitPreset /\ [][NextPreset]_vars

-----------------------------------------------------------------------------
(* The claims *)

\* the order of the phases
Rank(ph) ==
    CASE ph = PAYLOAD_DEPLOYED -> 0
      [] ph = SEEKING_DEBRIS -> 1
      [] ph = COARSE_APPROACH -> 2
      [] ph = FINE_APPROACH -> 3
      [] ph = CAPTURE -> 4
      [] ph = RETRACTING -> 5
      [] ph = REENTRY -> 6
      [] ph = COMPLETE -> 7

\* the step is a compute_control tick
IsTick == steps' = steps + 1 /\ ret'.op = "compute_control"
\* the step is a tick that passed the power check
IsRunTick == IsTick /\ out'.error = "none"
\* the step is a tick refused by the power check: can_support(5.0) is false
LowPower == ~(soc > SocFull \div 100 /\ ControlPowerKw <= MAX_DISCHARGE_RATE_KW)

\* C1: in a run of ticks the phase after a tick is the same as or later than the
\* phase before it, in the order PAYLOAD_DEPLOYED < SEEKING_DEBRIS < COARSE_APPROACH
\* < FINE_APPROACH < CAPTURE < RETRACTING < REENTRY < COMPLETE.
C1_PhaseNeverMovesBack == [][IsTick => Rank(phase') >= Rank(phase)]_vars

\* a run that went all the way to REENTRY
C1_Witness == out.phase = RETRACTING /\ phase = REENTRY

\* C2: a phase decision taken with a target selected and the phase REENTRY yields
\* COMPLETE: a tick that passes the power check in REENTRY ends in COMPLETE.
C2_ReentryThenComplete ==
    [][(IsRunTick /\ phase = REENTRY /\ target_debris # 0) => phase' = COMPLETE]_vars

\* C3: a tick on which can_support(5.0) is false returns the zero acceleration,
\* error = "low_power" and control_mode = null, and leaves phase, target, soc,
\* fuel_kg and every GrabbingSystem field as they were.
C3_LowPowerTick ==
    [][(IsTick /\ LowPower) =>
          /\ out'.u = Zero3
          /\ out'.error = "low_power"
          /\ out'.control_mode = "null"
          /\ UNCHANGED <<phase, target_debris, soc, fuel_kg, grabbing>>]_vars

\* a tick was refused for low power
C3_Witness == out.error = "low_power" /\ soc <= SocFull \div 100 /\ soc > 0

\* the phase decide_phase is called with on this tick, and the target's position
DecidedPhase == IF target_debris = 0 THEN COARSE_APPROACH ELSE phase
TargetPos == debris_catalog[target_debris'].pos
\* one of the approach rules 2-4 applies to this tick's decision
ApproachRule ==
    \/ DecidedPhase = COARSE_APPROACH /\ DistLess(state', TargetPos, LQR_COARSE_THRESHOLD)
    \/ DecidedPhase = FINE_APPROACH /\ DistLess(state', TargetPos, MPC_FINE_THRESHOLD)
    \/ DecidedPhase = CAPTURE /\ DistLess(state', TargetPos, SLIDING_CAPTURE_THRESHOLD)
\* the override's condition holds at this tick's decision
OverrideDue ==
    /\ IsRunTick
    /\ target_debris' # 0
    /\ grabbing.capture_confirmed
    /\ grabbing.retract_timer >= NET_RETRACTION_TIME_S

\* C4, as claimed: whatever the phase and the distance, a phase decision taken with
\* a target selected, capture_confirmed and retract_timer >= 5.0 yields REENTRY.
C4_OverrideAlways == [][OverrideDue => phase' = REENTRY]_vars

\* C4, amended: such a decision yields REENTRY unless the phase is COARSE_APPROACH
\* within 500 m, FINE_APPROACH within 5 m or CAPTURE within 1 cm of the target;
\* then the approach rule comes first and the next approach phase is taken.
C4_OverrideUnlessApproach ==
    [][OverrideDue =>
          IF ApproachRule THEN Rank(phase') = Rank(DecidedPhase) + 1
          ELSE phase' = REENTRY]_vars

\* the override fired while the phase was still CAPTURE
C4_Witness == out.phase = CAPTURE /\ out.error = "none" /\ phase = REENTRY

\* C5: from one tick's end to the next the phase stays, or moves to its immediate
\* successor, or jumps to REENTRY by the override (retract_timer >= 5.0 and
\* capture_confirmed).
C5_NoPhaseSkipped ==
    [][(IsTick /\ steps >= 1) =>
          \/ phase' = phase
          \/ Rank(phase') = Rank(phase) + 1
          \/ /\ phase' = REENTRY
             /\ grabbing.retract_timer >= NET_RETRACTION_TIME_S
             /\ grabbing.capture_confirmed]_vars

\* a tick moved CAPTURE on to RETRACTING
C5_Witness == out.phase = CAPTURE /\ out.error = "none" /\ phase = RETRACTING

\* squared distance of catalog record j to the position the tick was given
RecordDistSq(j) == NormSq(Sub3(debris_catalog[j].pos, state'))

\* C6: a tick that passes the power check with no target selected selects, from a
\* non-empty catalog, the record nearest to the state's position, the earliest one
\* of those equally near; with an empty catalog it selects none and ends in
\* SEEKING_DEBRIS.
C6_NearestSelected ==
    [][(IsRunTick /\ target_debris = 0) =>
          IF debris_catalog = <<>>
          THEN target_debris' = 0 /\ phase' = SEEKING_DEBRIS
          ELSE /\ target_debris' \in 1..Len(debris_catalog)
               /\ \A j \in 1..Len(debris_catalog) :
                     /\ ~LessLimb(RecordDistSq(j), RecordDistSq(target_debris'))
                     /\ j < target_debris' =>
                            LessLimb(RecordDistSq(target_debris'), RecordDistSq(j))]_vars

\* the second record of main.py's catalog was selected, from the origin
C6_Witness == steps = 1 /\ state = Zero3 /\ Len(debris_catalog) = 3 /\ target_debris = 2

\* the control_mode that belongs to a phase
ModeOf(ph) ==
    CASE ph = COARSE_APPROACH -> "LQR"
      [] ph = FINE_APPROACH -> "MPC"
      [] ph = CAPTURE -> "SMC+Adaptive"
      [] ph = RETRACTING -> "retract"
      [] ph = REENTRY -> "reentry"
      [] OTHER -> "null"

\* C7: on a tick that passes the power check the control_mode is the one of the
\* phase held after the phase update, and with control_mode null or "retract" the
\* returned acceleration is the zero vector.
C7_ControlModeOfPhase ==
    [][IsRunTick =>
          /\ out'.control_mode = ModeOf(phase')
          /\ out'.control_mode \in {"null", "retract"} => out'.u = Zero3]_vars

\* a tick ran in RETRACTING
C7_Witness == out.control_mode = "retract" /\ phase = RETRACTING

\* the selected target is heavier than MAX_DEBRIS_MASS_KG
TooMassive == target_debris # 0 /\ MassOf(debris_catalog[target_debris]) > MAX_DEBRIS_MASS_KG

\* C8: with a target of more than 500 kg capture_confirmed stays false and
\* retract_timer stays 0, and a tick that starts in RETRACTING ends in RETRACTING:
\* REENTRY and COMPLETE are not reached.
C8_TooMassiveStalls ==
    [][TooMassive =>
          /\ ~grabbing.capture_confirmed /\ ~grabbing'.capture_confirmed
          /\ grabbing.retract_timer = 0 /\ grabbing'.retract_timer = 0
          /\ phase = RETRACTING => phase' = RETRACTING
          /\ phase' \notin {REENTRY, COMPLETE}]_vars

\* a tick ran in RETRACTING on a deployed net and a target of more than 500 kg
C8_Witness ==
    TooMassive /\ out.phase = RETRACTING /\ phase = RETRACTING /\ grabbing.net_deployed

\* C9: confirm_capture(m) returns true exactly when net_deployed is true and
\* m <= 500, and when it returns false no GrabbingSystem field changes.
C9_ConfirmCapture ==
    [][(steps' = steps + 1 /\ ret'.op = "confirm_capture") =>
          /\ ret'.val = (grabbing.net_deployed /\ ret'.arg <= MAX_DEBRIS_MASS_KG)
          /\ ret'.val = FALSE => grabbing' = grabbing]_vars

\* confirm_capture succeeded with a mass of exactly 500 kg
C9_Witness ==
    ret.op = "confirm_capture" /\ ret.arg = MAX_DEBRIS_MASS_KG /\ ret.val = TRUE

\* C10: after every compute_control tick and every request_power call soc is within
\* [0, 1] and not greater than before the operation.
C10_SocBounded == [][soc' <= soc /\ soc' >= 0 /\ soc' <= SocFull]_vars

\* request_power was asked for more energy than was left
C10_Witness == ret.op = "request_power" /\ soc = 0

\* the step is a direct thrust_from_acceleration call
IsThrust == steps' = steps + 1 /\ ret'.op = "thrust_from_acceleration"

\* C11: over ticks and thrust_from_acceleration calls fuel_kg stays >= 0 and never
\* rises; a call removes min(force magnitude / (Isp * 9.81) * 0.1, fuel_kg), and a
\* tick removes what that call removes for the acceleration it returns, whatever
\* its dt.
C11_FuelBounded ==
    [][/\ fuel_kg' >= 0
       /\ fuel_kg' <= fuel_kg
       /\ IsThrust => fuel_kg - fuel_kg' = Min((ret'.val[1] * 100) \div IspG, fuel_kg)
       /\ IsRunTick =>
             fuel_kg - fuel_kg' = fuel_kg - thrust_from_acceleration(fuel_kg, out'.u).fuel_kg]_vars

\* a burn asked for more fuel than was left and emptied the tank
C11_Witness ==
    ret.op = "thrust_from_acceleration" /\ fuel_kg = 0 /\ ret.val[2] > 1000

\* C13: thrust_from_acceleration called with the zero acceleration returns a force
\* of exactly 50 N and uses the fuel of a 50 N burn.
C13_ZeroGivesVernier ==
    [][(IsThrust /\ ret'.arg = Zero3) =>
          /\ ret'.val[1] = 1000 * VERNIER_RCS_THRUST_N
          /\ ret'.val[2] = (1000 * VERNIER_RCS_THRUST_N * 100) \div IspG]_vars

\* the step is a direct deploy_net call
IsDeployNet == steps' = steps + 1 /\ ret'.op = "deploy_net"

\* C12: from a fresh GrabbingSystem net_deployed is true exactly when the dt
\* accumulated by deploy_net has reached 3.0; a deploy_net call on an undeployed
\* net adds its dt to deploy_timer and returns whether 3.0 is reached, and a call
\* on a deployed net returns true and changes no field.
C12_DeployNet ==
    /\ [](grabbing.net_deployed <=> grabbing.deploy_timer >= NET_DEPLOYMENT_TIME_S)
    /\ [][IsDeployNet =>
             IF grabbing.net_deployed
             THEN ret'.val = TRUE /\ grabbing' = grabbing
             ELSE /\ grabbing'.deploy_timer = grabbing.deploy_timer + ret'.dt
                  /\ ret'.val = (grabbing'.deploy_timer >= NET_DEPLOYMENT_TIME_S)
                  /\ ret'.val = grabbing'.net_deployed]_vars

\* the net deployed on the third call with dt = 1.0
C12_Witness ==
    /\ ret.op = "deploy_net" /\ ret.dt = 10 /\ ret.val = TRUE
    /\ grabbing.deploy_timer = NET_DEPLOYMENT_TIME_S /\ steps = 3

\* C14: captured_mass_kg is written at most once: once a capture is confirmed its
\* value never changes, also when confirm_capture is called again with another
\* mass <= 500.
C14_MassWrittenOnce ==
    [][grabbing.capture_confirmed =>
          grabbing'.captured_mass_kg = grabbing.captured_mass_kg]_vars

\* C15: once a tick has selected a target every later tick keeps that catalog
\* record as target, also when the state has moved to where another record is
\* the nearest.
C15_TargetKept == [][target_debris # 0 => target_debris' = target_debris]_vars

\* the second record of main.py's catalog is still the target at a position that
\* is nearest to the first
C15_Witness ==
    /\ Len(debris_catalog) = 3 /\ target_debris = 2 /\ steps >= 2
    /\ state = Shift(PosB, 500000)
    /\ identify_nearest_debris(state, debris_catalog) = 1

\* the tick invokes GrabbingSystem.deploy_net: it passes the power check, ends in
\* CAPTURE and is given a position within 1 mm of the target
InvokesDeployNet ==
    /\ IsRunTick
    /\ phase' = CAPTURE
    /\ target_debris' # 0
    /\ DistLess(state', TargetPos, CAPTURE_TOLERANCE_MM)

\* C16: in a run of ticks deploy_net is invoked on one tick at most, the one that
\* moves FINE_APPROACH to CAPTURE within 1 mm, so deploy_timer holds that one
\* tick's dt; and while it is below 3.0 (as it is when every dt is) net_deployed
\* and capture_confirmed are false and the phase is neither REENTRY nor COMPLETE.
C16_DeployOnOneTick ==
    /\ [][InvokesDeployNet =>
             /\ phase = FINE_APPROACH
             /\ grabbing.deploy_timer = 0
             /\ grabbing'.deploy_timer \in DtValues]_vars
    /\ [][grabbing'.deploy_timer # grabbing.deploy_timer => InvokesDeployNet]_vars
    /\ [](grabbing.deploy_timer < NET_DEPLOYMENT_TIME_S =>
             /\ ~grabbing.net_deployed
             /\ ~grabbing.capture_confirmed
             /\ phase \notin {REENTRY, COMPLETE})

\* a target of no more than 500 kg held at zero distance while RETRACTING, the
\* net undeployed after a deploy_net of 1 s
C16_Witness ==
    /\ phase = RETRACTING /\ out.phase = RETRACTING
    /\ target_debris # 0 /\ ~TooMassive
    /\ state = debris_catalog[target_debris].pos
    /\ grabbing.deploy_timer = 10 /\ ~grabbing.net_deployed

\* C17: once a tick has returned error = "low_power" every later tick returns
\* error = "low_power" and the zero acceleration, and phase, target, fuel_kg and
\* the GrabbingSystem fields never change again.
C17_LowPowerAbsorbing ==
    [][(IsTick /\ out.error = "low_power") =>
          /\ out'.error = "low_power"
          /\ out'.u = Zero3
          /\ UNCHANGED <<phase, target_debris, fuel_kg, grabbing>>]_vars

\* a second tick in a row was refused for low power, at another position
C17_Witness ==
    out.error = "low_power" /\ steps >= 3 /\ state = PosB /\ phase = FINE_APPROACH

\* C20: the telemetry's phase is the phase held when the tick started and its
\* control_mode is the one of the phase held after the update, so a tick that
\* changes the phase returns the old phase with the new phase's control_mode.
C20_TelemetryPhaseIsOld ==
    [][IsTick =>
          /\ out'.phase = phase
          /\ IsRunTick => out'.control_mode = ModeOf(phase')
          /\ (IsRunTick /\ phase' # phase) =>
                 (out'.phase # phase' /\ out'.control_mode = ModeOf(phase'))]_vars

\* the selection tick returned phase = payload_deployed with control_mode = LQR
C20_Witness ==
    out.phase = PAYLOAD_DEPLOYED /\ out.control_mode = "LQR" /\ phase = COARSE_APPROACH

\* C18: when the caller has set target_debris before the first tick while the
\* phase is PAYLOAD_DEPLOYED, every tick leaves the phase at PAYLOAD_DEPLOYED and
\* returns the zero acceleration with control_mode = null, whatever the state and
\* the distance to the target: COARSE_APPROACH is never entered.
C18_PresetTargetStalls ==
    /\ [][IsTick =>
             /\ phase' = PAYLOAD_DEPLOYED
             /\ out'.u = Zero3
             /\ out'.control_mode = "null"
             /\ out'.error = "none"]_vars
    /\ [](target_debris # 0 /\ phase # COARSE_APPROACH)

\* ticks have run with the vehicle on the target, and the phase has not moved
C18_Witness ==
    /\ steps >= 2
    /\ ret.op = "compute_control"
    /\ state = debris_catalog[target_debris].pos
    /\ phase = PAYLOAD_DEPLOYED
    /\ out.phase = PAYLOAD_DEPLOYED

\* C19: in a run of ticks, capture_confirmed or retract_timer > 0 implies that
\* the phase is RETRACTING or REENTRY; so the override never moves the phase to
\* REENTRY from a phase before RETRACTING, and REENTRY is only entered from
\* RETRACTING.
C19_ReentryOnlyFromRetracting ==
    /\ []((grabbing.capture_confirmed \/ grabbing.retract_timer > 0) =>
              phase \in {RETRACTING, REENTRY})
    /\ [][(phase' = REENTRY /\ phase # REENTRY) => phase = RETRACTING]_vars

\* REENTRY has been entered with the capture confirmed and the net retracted
C19_Witness ==
    /\ phase = REENTRY
    /\ out.phase = RETRACTING
    /\ grabbing.capture_confirmed
    /\ grabbing.retract_timer >= NET_RETRACTION_TIME_S

====
